---- MODULE Spec2Model ----
(***************************************************************************)
(* The watchdog of base.py: a fixed table of child processes, a health     *)
(* pass with capped exponential backoff, a file mailbox of commands, an    *)
(* alert throttle and a status file, together with the two collaborators   *)
(* of app/web.py that share files with it (the enqueuing writer and the    *)
(* status reader).  Time is in whole seconds.                              *)
(***************************************************************************)
EXTENDS Integers, Sequences, FiniteSets, TLC

\* ---------------------------------------------------------------- constants
CHECK_INTERVAL == 3
UNHEALTHY_GRACE == 15
RESTART_BACKOFF_MAX == 60
ALERT_WINDOW_SEC == 120
ALERT_MAX_RESTARTS == 3
ALERT_COOLDOWN_SEC == 300
STABLE_SEC == 30
STOP_TIMEOUT == 10
DEQUE_MAXLEN == 50

\* None of Python, for the Optional fields (timestamps, pids and exit codes).
None == -1000
SIGTERM_RC == -15
CRASH_RC == 1

\* ------------------------------------------------------------------- bounds
\* time.time() when the watchdog starts (seconds since 1970, far above the cooldown)
Epoch == 1000
\* seconds of watchdog run time explored: with an operator at work, with
\* flaky children, with scripted children
MaxTime == 6
FlakyTime == 36
LifeTime == 125
\* seconds explored with one child that exits at every start, long enough
\* for more starts than the restart buffer holds
RingTime == 2830
\* spontaneous exits of flaky children; command files dropped
MaxCrashes == 1
MaxCmds == 2
\* seconds explored with an operator at work on a child that exits at
\* every start, long enough for a command to find four recent starts
OpsAlertTime == 16
\* SpecAlert: ticks, seconds explored, length of a quiet period
MaxAlertTicks == 9
AlertTime == 450
QuietGap == 310

\* SpecAlert: seconds from one tick that finds the child exited to the next
AlertGaps == {10, 20}

\* ------------------------------------------------------------ process table
Procs == <<"web", "engine", "telegram">>
Names == {"web", "engine", "telegram"}

VARIABLES
    now,         \* time.time()
    procs,       \* name -> the mutable fields of its ProcSpec
    nextPid,     \* pid the next Popen gets
    pc,          \* where main() is
    idx,         \* position of main()'s current `for s in specs` loop
    running,     \* the global flag the signal handler clears
    mailbox,     \* runtime/cmd/*.json
    pending,     \* the list _read_cmds() returned, not yet applied
    lastCmd,     \* runtime/last_cmd.json
    statusFile,  \* runtime/status.json
    readerSaw,   \* what the last GET /system/status found in status.json
    wpc,         \* the enqueuing request between its two writes
    alerts,      \* name -> the times _send_telegram was called for it
    drain,       \* runtime/engine.drain exists
    env,         \* how the children and the outside world behave
    hist         \* bookkeeping about what main() has done (not program state)

vars == <<now, procs, nextPid, pc, idx, running, mailbox, pending, lastCmd,
          statusFile, readerSaw, wpc, alerts, drain, env, hist>>

Min(a, b) == IF a < b THEN a ELSE b

\* dataclass ProcSpec: the defaults of its mutable fields
NewProc ==
    [proc |-> None, rc |-> None, last_start |-> 0, backoff |-> 0,
     unhealthy_since |-> None, restart_times |-> <<>>, last_alert |-> 0,
     last_exit_code |-> None, last_exit_ts |-> None]

build_specs == [p \in Names |-> NewProc]

\* a buffer that never drops an entry
DequeAppendUnbounded(q, x) == Append(q, x)

\* deque(maxlen=50).append
DequeAppend(q, x) ==
    IF Len(q) >= DEQUE_MAXLEN THEN Append(Tail(q), x) ELSE Append(q, x)

\* _is_running: a handle whose poll() is still None
IsRunning(s) == s.proc # None /\ s.rc = None

\* the backoff line without its ceiling
NextBackoffUncapped(b) == IF b # 0 THEN b * 2 + 1 ELSE 1

\* the backoff line doubling without the +1
NextBackoffDouble(b) ==
    IF b # 0 THEN Min(b * 2, RESTART_BACKOFF_MAX) ELSE 1

\* _start, its backoff line
NextBackoff(b) ==
    IF b # 0 THEN Min(b * 2 + 1, RESTART_BACKOFF_MAX) ELSE 1

\* the spawn without the backoff sleep
StartTimeNoWait(s, t) == t

\* _start, the moment of the spawn: the backoff delay is slept first
StartTime(s, t) ==
    LET wait == Min(s.backoff, RESTART_BACKOFF_MAX)
    IN  IF wait > 0 /\ (t - s.last_start) < wait
        THEN t + (wait - (t - s.last_start))
        ELSE t

\* a _start that leaves the exit fields of the previous child
StartKeepsExitFields(s, t, pid, rc) ==
    LET t1 == StartTime(s, t)
    IN  [s |-> [s EXCEPT !.proc = pid, !.rc = rc, !.last_start = t1,
                         !.restart_times = DequeAppend(@, t1),
                         !.backoff = NextBackoff(@)],
         now |-> t1]

\* _start: rc is what poll() of the new child says (None unless it has exited)
Start(s, t, pid, rc) ==
    LET t1 == StartTime(s, t)
    IN  [s |-> [s EXCEPT !.proc = pid, !.rc = rc, !.last_start = t1,
                         !.last_exit_code = None, !.last_exit_ts = None,
                         !.restart_times = DequeAppend(@, t1),
                         !.backoff = NextBackoff(@)],
         now |-> t1]

\* a _start that returns at once and leaves the backoff sleep and the
\* spawn to run in the background
StartOutcomeDetached(s, t, pid, rc, fault) ==
    IF fault = "none"
    THEN [raised |-> FALSE] @@ [Start(s, t, pid, rc) EXCEPT !.now = t]
    ELSE [s |-> s, now |-> t, raised |-> TRUE]

\* _start when open() of the log file or Popen may raise: fault says which
\* of them does ("nolog", "nospawn") or that neither does ("none").  Both
\* come after the backoff sleep and before any field is assigned.
StartOutcome(s, t, pid, rc, fault) ==
    IF fault = "none"
    THEN [raised |-> FALSE] @@ Start(s, t, pid, rc)
    ELSE [s |-> s, now |-> StartTime(s, t), raised |-> TRUE]

\* a _stop that records an exit without looking at the handle
StopRecordsWithoutHandle(s, t, out) ==
    LET live == IsRunning(s)
        t1 == IF live THEN t + out.delay ELSE t
        code == IF live THEN out.rc ELSE s.rc
    IN  [s |-> [s EXCEPT !.proc = None, !.rc = None,
                         !.last_exit_code = code, !.last_exit_ts = t1],
         now |-> t1]

\* _stop: out is how the child takes terminate(): the seconds until it is
\* gone (or the timeout) and what poll() says at the end
Stop(s, t, out) ==
    LET live == IsRunning(s)
        t1 == IF live THEN t + out.delay ELSE t
        code == IF live THEN out.rc ELSE s.rc
    IN  [s |-> IF s.proc # None
               THEN [s EXCEPT !.proc = None, !.rc = None,
                              !.last_exit_code = code, !.last_exit_ts = t1]
               ELSE [s EXCEPT !.proc = None, !.rc = None],
         now |-> t1]

\* _maybe_alert, the list `recent`
Recent(s, t) ==
    {i \in 1..Len(s.restart_times) : t - s.restart_times[i] <= ALERT_WINDOW_SEC}

\* the condition with >= for the restart count
ShouldAlertAtThreshold(s, t) ==
    /\ Cardinality(Recent(s, t)) >= ALERT_MAX_RESTARTS
    /\ (t - s.last_alert) > ALERT_COOLDOWN_SEC

\* the condition without the cooldown
ShouldAlertNoCooldown(s, t) ==
    Cardinality(Recent(s, t)) > ALERT_MAX_RESTARTS

\* _maybe_alert, its condition
ShouldAlert(s, t) ==
    /\ Cardinality(Recent(s, t)) > ALERT_MAX_RESTARTS
    /\ (t - s.last_alert) > ALERT_COOLDOWN_SEC

\* _maybe_alert: the record after it, and whether _send_telegram was called
MaybeAlert(s, t) ==
    IF ShouldAlert(s, t)
    THEN [s |-> [s EXCEPT !.last_alert = t], sent |-> TRUE]
    ELSE [s |-> s, sent |-> FALSE]

\* the reset with >= for the stability window
MaybeResetBackoffEarly(s, t) ==
    IF s.backoff # 0 /\ (t - s.last_start) >= STABLE_SEC
    THEN [s EXCEPT !.backoff = 0]
    ELSE s

\* _maybe_reset_backoff
MaybeResetBackoff(s, t) ==
    IF s.backoff # 0 /\ (t - s.last_start) > STABLE_SEC
    THEN [s EXCEPT !.backoff = 0]
    ELSE s

\* main(), the test that ends the grace period
GraceOver(s, t) == (t - s.unhealthy_since) >= UNHEALTHY_GRACE

\* a health pass that leaves alone a process that has no handle, as after
\* a stop command
HealthPassLeavesStopped(s, t, h, pid, rc, out, fault) ==
    LET alive == IsRunning(s)
        healthy == IF alive THEN h ELSE FALSE
    IN  IF s.proc = None
        THEN [s |-> s, now |-> t, sent |-> FALSE, did |-> "wait", raised |-> FALSE]
        ELSE IF ~alive
        THEN LET a == MaybeAlert(s, t)
                 st == StartOutcome(a.s, t, pid, rc, fault)
             IN  [s |-> st.s, now |-> st.now, sent |-> a.sent, did |-> "restart",
                  raised |-> st.raised]
        ELSE IF healthy
        THEN [s |-> MaybeResetBackoff([s EXCEPT !.unhealthy_since = None], t),
              now |-> t, sent |-> FALSE, did |-> "ok", raised |-> FALSE]
        ELSE IF s.unhealthy_since = None
        THEN [s |-> [s EXCEPT !.unhealthy_since = t],
              now |-> t, sent |-> FALSE, did |-> "mark", raised |-> FALSE]
        ELSE IF GraceOver(s, t)
        THEN LET a == MaybeAlert(s, t)
                 sp == Stop(a.s, t, out)
                 st == StartOutcome(sp.s, sp.now, pid, rc, fault)
             IN  [s |-> st.s, now |-> st.now, sent |-> a.sent, did |-> "forced",
                  raised |-> st.raised]
        ELSE [s |-> s, now |-> t, sent |-> FALSE, did |-> "wait", raised |-> FALSE]

\* a health pass that leaves a child found exited for a later tick while
\* its backoff delay is not over
HealthPassDefersRestart(s, t, h, pid, rc, out, fault) ==
    LET alive == IsRunning(s)
        healthy == IF alive THEN h ELSE FALSE
    IN  IF ~alive /\ StartTime(s, t) > t
        THEN [s |-> s, now |-> t, sent |-> FALSE, did |-> "wait", raised |-> FALSE]
        ELSE IF ~alive
        THEN LET a == MaybeAlert(s, t)
                 st == StartOutcome(a.s, t, pid, rc, fault)
             IN  [s |-> st.s, now |-> st.now, sent |-> a.sent, did |-> "restart",
                  raised |-> st.raised]
        ELSE IF healthy
        THEN [s |-> MaybeResetBackoff([s EXCEPT !.unhealthy_since = None], t),
              now |-> t, sent |-> FALSE, did |-> "ok", raised |-> FALSE]
        ELSE IF s.unhealthy_since = None
        THEN [s |-> [s EXCEPT !.unhealthy_since = t],
              now |-> t, sent |-> FALSE, did |-> "mark", raised |-> FALSE]
        ELSE IF GraceOver(s, t)
        THEN LET a == MaybeAlert(s, t)
                 sp == Stop(a.s, t, out)
                 st == StartOutcome(sp.s, sp.now, pid, rc, fault)
             IN  [s |-> st.s, now |-> st.now, sent |-> a.sent, did |-> "forced",
                  raised |-> st.raised]
        ELSE [s |-> s, now |-> t, sent |-> FALSE, did |-> "wait", raised |-> FALSE]

\* main(), the body of `for s in specs` in the health pass, for one process:
\* h is what its health_check() returns, pid and rc describe the child a
\* spawn would give, out is how a stopped child would take terminate(),
\* fault is what goes wrong in a _start; raised says that _start raised,
\* which nothing in main() catches
HealthPass(s, t, h, pid, rc, out, fault) ==
    LET alive == IsRunning(s)
        healthy == IF alive THEN h ELSE FALSE
    IN  IF ~alive
        THEN LET a == MaybeAlert(s, t)
                 st == StartOutcome(a.s, t, pid, rc, fault)
             IN  [s |-> st.s, now |-> st.now, sent |-> a.sent, did |-> "restart",
                  raised |-> st.raised]
        ELSE IF healthy
        THEN [s |-> MaybeResetBackoff([s EXCEPT !.unhealthy_since = None], t),
              now |-> t, sent |-> FALSE, did |-> "ok", raised |-> FALSE]
        ELSE IF s.unhealthy_since = None
        THEN [s |-> [s EXCEPT !.unhealthy_since = t],
              now |-> t, sent |-> FALSE, did |-> "mark", raised |-> FALSE]
        ELSE IF GraceOver(s, t)
        THEN LET a == MaybeAlert(s, t)
                 sp == Stop(a.s, t, out)
                 st == StartOutcome(sp.s, sp.now, pid, rc, fault)
             IN  [s |-> st.s, now |-> st.now, sent |-> a.sent, did |-> "forced",
                  raised |-> st.raised]
        ELSE [s |-> s, now |-> t, sent |-> FALSE, did |-> "wait", raised |-> FALSE]

\* ------------------------------------------------------------- environment
\* A child is "stable" (runs, probe true), "crashy" (exits as soon as it is
\* started), "wedged" (runs, probe false) or "flaky" (may exit and its probe
\* may fail at any time).  env.ops says whether an operator is at work
\* (commands are dropped, children may be slow to stop), env.sig whether a
\* shutdown signal may arrive, env.cmds how many command files may be
\* dropped, env.focus the module the operator's commands name, env.web
\* whether the status endpoint is polled, env.faulty what may go wrong in
\* _start from some moment on (the log file cannot be opened, the spawn
\* fails) and env.fault what does go wrong by now.
Flaky == \E p \in Names : env.mode[p] = "flaky"

Horizon ==
    IF env.long THEN (IF env.ops THEN OpsAlertTime ELSE RingTime)
    ELSE IF env.ops THEN MaxTime
    ELSE IF Flaky \/ env.faulty # "none" THEN FlakyTime
    ELSE LifeTime

\* what health_check() of p can return; telegram_healthy is constant True
ProbeResults(p) ==
    IF p = "telegram" THEN {TRUE}
    ELSE IF env.mode[p] = "flaky" THEN BOOLEAN
    ELSE IF env.mode[p] = "wedged" THEN {FALSE}
    ELSE {TRUE}

\* what poll() of a child just spawned for p says
SpawnRc(p) == IF env.mode[p] = "crashy" THEN CRASH_RC ELSE None

\* how a live child takes terminate(): gone at once, or still there at the
\* timeout and killed, poll() right after kill() still saying None
StopOutcomes ==
    IF ~env.ops
    THEN {[delay |-> 0, rc |-> SIGTERM_RC]}
    ELSE {[delay |-> 0, rc |-> SIGTERM_RC],
          [delay |-> STOP_TIMEOUT, rc |-> None]}

\* -------------------------------------------------------------- the mailbox
Targets == {"web", "engine", "api"}
Actions == {"start", "stop", "restart", "drain"}

\* rank of a name part in the order of Python's str comparison
TRank(x) ==
    CASE x = "api" -> 1 [] x = "engine" -> 2 [] x = "telegram" -> 3 [] x = "web" -> 4

ARank(x) ==
    CASE x = "bogus" -> 1 [] x = "drain" -> 2 [] x = "restart" -> 3
      [] x = "start" -> 4 [] x = "stop" -> 5

RECURSIVE Digits(_)
\* str(n) for n >= 0, as the sequence of its decimal digits
Digits(n) == IF n < 10 THEN <<n>> ELSE Append(Digits(n \div 10), n % 10)

\* "<a>_" sorts before "<b>_" as Python compares str: character by
\* character, the underscore (here 10) after every digit
TsPrefixLess(a, b) ==
    LET x == Append(Digits(a), 10)
        y == Append(Digits(b), 10)
    IN  \E i \in 1..Min(Len(x), Len(y)) :
            /\ x[i] < y[i]
            /\ \A j \in 1..(i - 1) : x[j] = y[j]

\* p.name of f sorts before p.name of g: "<ts>_<module>_<action>.json"
NameLess(f, g) ==
    \/ TsPrefixLess(f.ts, g.ts)
    \/ f.ts = g.ts /\ TRank(f.target) < TRank(g.target)
    \/ f.ts = g.ts /\ f.target = g.target /\ ARank(f.action) < ARank(g.action)

SameName(f, g) == f.ts = g.ts /\ f.target = g.target /\ f.action = g.action

RECURSIVE SortedFilesLastFirst(_)
\* the files in descending order of name
SortedFilesLastFirst(S) ==
    IF S = {} THEN <<>>
    ELSE LET f == CHOOSE x \in S : \A y \in S \ {x} : NameLess(y, x)
         IN  <<f>> \o SortedFilesLastFirst(S \ {f})

RECURSIVE SortedFiles(_)
\* sorted(CMD_DIR.glob("*.json"), key=lambda p: p.name)
SortedFiles(S) ==
    IF S = {} THEN <<>>
    ELSE LET f == CHOOSE x \in S : \A y \in S \ {x} : NameLess(x, y)
         IN  <<f>> \o SortedFiles(S \ {f})

\* _read_cmds
ReadCmdsResult == SortedFiles(mailbox)

\* fp.unlink() of the file named like f, whatever it holds by now
Unlink(box, f) == {g \in box : ~SameName(g, f)}

\* write_text of a command file: a file of that name is replaced
WriteFile(box, f) == Unlink(box, f) \cup {f}

\* what json.loads of the file gives _apply_cmd: the object the web writer
\* wrote ("obj"), {"file": name} for an unparseable body ("garbage"), or a
\* JSON value that is no object ("nonobj")
CmdTarget(c) == IF c.kind = "obj" THEN c.target ELSE "(none)"

CmdAction(c) == IF c.kind = "obj" THEN c.action ELSE "(none)"

\* no `stop` refused
RefusedNever(target, action) == FALSE

\* _apply_cmd, the `stop` it refuses
Refused(target, action) == action = "stop" /\ target = "web"

\* an action that is none of the four handled like `restart`
BranchUnknownRestarts(ps, target, action) ==
    IF target \notin Names THEN "unknown target"
    ELSE IF action = "restart" THEN "restart"
    ELSE IF action = "stop"
    THEN (IF Refused(target, action) THEN "refused" ELSE "stop")
    ELSE IF action = "start"
    THEN (IF IsRunning(ps[target]) THEN "already running" ELSE "start")
    ELSE IF action = "drain" /\ target = "engine" THEN "drain"
    ELSE "restart"

\* `start` without the test of _is_running
BranchStartAlways(ps, target, action) ==
    IF target \notin Names THEN "unknown target"
    ELSE IF action = "restart" THEN "restart"
    ELSE IF action = "stop"
    THEN (IF Refused(target, action) THEN "refused" ELSE "stop")
    ELSE IF action = "start" THEN "start"
    ELSE IF action = "drain" /\ target = "engine" THEN "drain"
    ELSE "unknown action"

\* `restart` handled like `start`
BranchRestartAsStart(ps, target, action) ==
    IF target \notin Names THEN "unknown target"
    ELSE IF action = "stop"
    THEN (IF Refused(target, action) THEN "refused" ELSE "stop")
    ELSE IF action \in {"start", "restart"}
    THEN (IF IsRunning(ps[target]) THEN "already running" ELSE "start")
    ELSE IF action = "drain" /\ target = "engine" THEN "drain"
    ELSE "unknown action"

\* `drain` of a process other than engine handled like `stop`
BranchDrainStops(ps, target, action) ==
    IF target \notin Names THEN "unknown target"
    ELSE IF action = "restart" THEN "restart"
    ELSE IF action = "stop"
    THEN (IF Refused(target, action) THEN "refused" ELSE "stop")
    ELSE IF action = "start"
    THEN (IF IsRunning(ps[target]) THEN "already running" ELSE "start")
    ELSE IF action = "drain" /\ target = "engine" THEN "drain"
    ELSE IF action = "drain" THEN "stop"
    ELSE "unknown action"

\* _apply_cmd, the branch of its if/elif chain that a command takes
Branch(ps, target, action) ==
    IF target \notin Names THEN "unknown target"
    ELSE IF action = "restart" THEN "restart"
    ELSE IF action = "stop"
    THEN (IF Refused(target, action) THEN "refused" ELSE "stop")
    ELSE IF action = "start"
    THEN (IF IsRunning(ps[target]) THEN "already running" ELSE "start")
    ELSE IF action = "drain" /\ target = "engine" THEN "drain"
    ELSE "unknown action"

\* _apply_cmd on table ps at time t: the table and clock after it, the states
\* it passed to _set_last_cmd_state in order, whether it raised, whether it
\* wrote the drain marker and whether it spawned a child; a _start that
\* raises is caught by its `except Exception`
ApplyCmdResult(ps, t, c, pid, rc, out, fault) ==
    LET target == CmdTarget(c)
        action == CmdAction(c)
        b == Branch(ps, target, action)
        same == [procs |-> ps, now |-> t, raised |-> FALSE, marker |-> FALSE,
                 spawned |-> FALSE]
    IN  IF c.kind = "nonobj"
        THEN [trail |-> <<>>, raised |-> TRUE] @@ same
        ELSE IF b = "unknown target"
        THEN [trail |-> <<"error">>] @@ same
        ELSE IF b = "restart"
        THEN LET sp == Stop(ps[target], t, out)
                 st == StartOutcome(sp.s, sp.now, pid, rc, fault)
             IN  [procs |-> [ps EXCEPT ![target] = st.s], now |-> st.now,
                  trail |-> <<"applied", "executing",
                              IF st.raised THEN "error" ELSE "done">>,
                  raised |-> FALSE, marker |-> FALSE, spawned |-> ~st.raised]
        ELSE IF b = "refused"
        THEN [trail |-> <<"applied", "error">>] @@ same
        ELSE IF b = "stop"
        THEN LET sp == Stop(ps[target], t, out)
             IN  [procs |-> [ps EXCEPT ![target] = sp.s], now |-> sp.now,
                  trail |-> <<"applied", "executing", "done">>,
                  raised |-> FALSE, marker |-> FALSE, spawned |-> FALSE]
        ELSE IF b = "already running"
        THEN [trail |-> <<"applied", "done">>] @@ same
        ELSE IF b = "start"
        THEN LET st == StartOutcome(ps[target], t, pid, rc, fault)
             IN  [procs |-> [ps EXCEPT ![target] = st.s], now |-> st.now,
                  trail |-> <<"applied", "executing",
                              IF st.raised THEN "error" ELSE "done">>,
                  raised |-> FALSE, marker |-> FALSE, spawned |-> ~st.raised]
        ELSE IF b = "drain"
        THEN [procs |-> ps, now |-> t,
              trail |-> <<"applied", "executing", "done">>,
              raised |-> FALSE, marker |-> TRUE, spawned |-> FALSE]
        ELSE [trail |-> <<"applied", "error">>] @@ same

\* _set_last_cmd_state: last_cmd.json after the command's last recorded state
LastCmdAfter(old, c, trail) ==
    IF trail = <<>> THEN old
    ELSE [id |-> c.id, target |-> CmdTarget(c), action |-> CmdAction(c),
          state |-> trail[Len(trail)]]

NoCmd == [id |-> 0, target |-> "(none)", action |-> "(none)", state |-> "absent"]

\* ------------------------------------------------------------- the snapshot
\* _state_reason
StateReason(s, alive, healthy, t) ==
    IF ~alive
    THEN IF s.last_exit_code # None
         THEN [kind |-> "stopped", n |-> s.last_exit_code]
         ELSE [kind |-> "not running", n |-> 0]
    ELSE IF ~healthy
    THEN IF s.unhealthy_since # None /\ s.unhealthy_since # 0
         THEN [kind |-> "unhealthy for", n |-> t - s.unhealthy_since]
         ELSE [kind |-> "health check failed", n |-> 0]
    ELSE [kind |-> "ok", n |-> 0]

\* an entry that reports the probe's answer without looking at the child
StatusEntryProbeOnly(s, t, h) ==
    LET alive == IsRunning(s)
    IN  [running |-> alive, healthy |-> h,
         pid |-> IF s.proc # None THEN (IF alive THEN s.proc ELSE None) ELSE None,
         backoff |-> s.backoff, last_start |-> s.last_start,
         last_exit_code |-> s.last_exit_code, last_exit_ts |-> s.last_exit_ts,
         reason |-> StateReason(s, alive, h, t)]

\* _snapshot_status, the entry of one process; h is what its probe returns
StatusEntry(s, t, h) ==
    LET alive == IsRunning(s)
        healthy == IF alive THEN h ELSE FALSE
    IN  [running |-> alive, healthy |-> healthy,
         pid |-> IF s.proc # None THEN (IF alive THEN s.proc ELSE None) ELSE None,
         backoff |-> s.backoff, last_start |-> s.last_start,
         last_exit_code |-> s.last_exit_code, last_exit_ts |-> s.last_exit_ts,
         reason |-> StateReason(s, alive, healthy, t)]

\* _snapshot_status, the document it builds; hs gives each probe's answer
StatusDoc(hs) ==
    [entries |-> [p \in Names |-> StatusEntry(procs[p], now, hs[p])],
     meta |-> [ts |-> now, queue_len |-> Cardinality(mailbox), last_cmd |-> lastCmd]]

ProbeVectors == {hs \in [Names -> BOOLEAN] : \A p \in Names : hs[p] \in ProbeResults(p)}

\* ------------------------------------------------------------------ states
\* hist.forced: per process, how many health passes in a row have ended in
\*   its forced stop+start
\* hist.read: the ids of the files the latest _read_cmds() returned
\* hist.applied: the ids _apply_cmd was called with, in order
\* hist.seen: what the latest health pass step found: the process, the time,
\*   _is_running, the probe's answer, the branch taken and whether it raised
\* hist.trail: the states the latest _apply_cmd passed to _set_last_cmd_state
\* hist.ticks: health passes made under SpecAlert
\* hist.last: the command the latest _apply_cmd was called with
\* hist.sig: how many commands had been applied and how many children
\*   spawned when the shutdown signal arrived (-1 before it)
NotSeen ==
    [p |-> "(none)", t |-> 0, alive |-> FALSE, healthy |-> FALSE, did |-> "(none)",
     raised |-> FALSE]

NoFile == [ts |-> 0, target |-> "(none)", action |-> "(none)", kind |-> "obj", id |-> 0]

InitWith(pc0) ==
    /\ now = Epoch
    /\ procs = build_specs
    /\ nextPid = 1
    /\ pc = pc0
    /\ idx = 1
    /\ running = TRUE
    /\ mailbox = {}
    /\ pending = <<>>
    /\ lastCmd = NoCmd
    /\ statusFile = [st |-> "absent", doc |-> <<>>]
    /\ readerSaw = "never"
    /\ wpc = [at |-> "idle", c |-> NoFile]
    /\ alerts = [p \in Names |-> <<>>]
    /\ drain = FALSE
    /\ hist = [forced |-> [p \in Names |-> 0], read |-> {}, applied |-> <<>>,
               seen |-> NotSeen, trail |-> <<>>, ticks |-> 0, last |-> NoFile,
               sig |-> [applied |-> -1, spawned |-> -1]]

\* telegram_healthy is constant True, so telegram is never "wedged"
Modes(kinds) == {f \in [Names -> kinds] : f["telegram"] # "wedged"}

Env(m, ops, sig, cmds, focus, web) ==
    [mode |-> m, ops |-> ops, sig |-> sig, cmds |-> cmds, focus |-> focus,
     web |-> web, crashes |-> 0, sent |-> 0, faulty |-> "none", fault |-> "none",
     long |-> FALSE]

\* scripted children, watched over a long time, the status endpoint polled
ScriptedEnvs == {Env(m, FALSE, FALSE, 0, "(none)", TRUE) : m \in Modes({"stable", "crashy", "wedged"})}

\* children that exit and fail their probe at any time
FlakyEnvs ==
    {Env(m, FALSE, FALSE, 0, "(none)", FALSE) :
        m \in {f \in Modes({"stable", "flaky"}) :
                  Cardinality({p \in Names : f[p] = "flaky"}) = 1}}

\* an operator at work on one module, which runs or exits at every start
OpsModes(focus) ==
    {f \in Modes({"stable", "crashy"}) :
        \A p \in Names : f[p] = "crashy" => p = focus}

OpsEnvs ==
    UNION {{Env(m, TRUE, FALSE, MaxCmds, focus, FALSE) : m \in OpsModes(focus)} :
              focus \in Targets}

\* an operator who also shuts the watchdog down
SigEnvs ==
    UNION {{Env(m, TRUE, TRUE, 1, focus, FALSE) : m \in OpsModes(focus)} :
              focus \in Targets}

\* what can go wrong in _start
Faults == {"nolog", "nospawn"}

\* one child that the health pass will restart, and a _start that fails
\* from some moment on
FaultModes ==
    {f \in Modes({"stable", "crashy", "wedged"}) :
        /\ f["telegram"] = "stable"
        /\ Cardinality({p \in Names : f[p] # "stable"}) = 1}

FaultEnvs ==
    {[Env(m, FALSE, FALSE, 0, "(none)", FALSE) EXCEPT !.faulty = k] :
        m \in FaultModes, k \in Faults}

\* an operator's command for engine when _start fails
FaultOpsEnvs ==
    {[Env([p \in Names |-> "stable"], TRUE, FALSE, 1, "engine", FALSE)
         EXCEPT !.faulty = k] : k \in Faults}

\* one child that exits at every start, watched for a very long time
RingEnvs ==
    {[Env([p \in Names |-> IF p = q THEN "crashy" ELSE "stable"],
          FALSE, FALSE, 0, "(none)", FALSE) EXCEPT !.long = TRUE] : q \in {"engine"}}

\* an operator with one command for engine, which exits at every start
OpsAlertEnvs ==
    {[Env([p \in Names |-> IF p = "engine" THEN "crashy" ELSE "stable"],
          TRUE, FALSE, 1, "engine", FALSE) EXCEPT !.long = TRUE]}

Init ==
    /\ InitWith("boot")
    /\ env \in ScriptedEnvs \cup FlakyEnvs \cup OpsEnvs \cup SigEnvs
                \cup FaultEnvs \cup FaultOpsEnvs \cup RingEnvs \cup OpsAlertEnvs

\* ------------------------------------------------------------------ main()
\* an initial start that is not counted as a restart
BootUncounted ==
    /\ pc = "boot"
    /\ LET p == Procs[idx]
           st == Start(procs[p], now, nextPid, SpawnRc(p))
       IN  /\ procs' = [procs EXCEPT ![p] = [st.s EXCEPT !.restart_times = <<>>]]
           /\ now' = st.now
    /\ nextPid' = nextPid + 1
    /\ IF idx < Len(Procs)
       THEN idx' = idx + 1 /\ pc' = "boot"
       ELSE idx' = 1 /\ pc' = "loop"
    /\ UNCHANGED <<running, mailbox, pending, lastCmd, statusFile, readerSaw,
                   wpc, alerts, drain, env, hist>>

\* `for s in specs: _start(s)`, one process per step
Boot ==
    /\ pc = "boot"
    /\ LET p == Procs[idx]
           st == Start(procs[p], now, nextPid, SpawnRc(p))
       IN  /\ procs' = [procs EXCEPT ![p] = st.s]
           /\ now' = st.now
    /\ nextPid' = nextPid + 1
    /\ IF idx < Len(Procs)
       THEN idx' = idx + 1 /\ pc' = "boot"
       ELSE idx' = 1 /\ pc' = "loop"
    /\ UNCHANGED <<running, mailbox, pending, lastCmd, statusFile, readerSaw,
                   wpc, alerts, drain, env, hist>>

\* a loop that goes on after the signal
SleepWhateverTheFlag ==
    /\ pc = "loop"
    /\ now + CHECK_INTERVAL <= Epoch + Horizon
    /\ now' = now + CHECK_INTERVAL
    /\ pc' = "read"
    /\ UNCHANGED <<procs, nextPid, idx, running, mailbox, pending, lastCmd,
                   statusFile, readerSaw, wpc, alerts, drain, env, hist>>

\* `while running: time.sleep(CHECK_INTERVAL)`
Sleep ==
    /\ pc = "loop"
    /\ running
    /\ now + CHECK_INTERVAL <= Epoch + Horizon
    /\ now' = now + CHECK_INTERVAL
    /\ pc' = "read"
    /\ UNCHANGED <<procs, nextPid, idx, running, mailbox, pending, lastCmd,
                   statusFile, readerSaw, wpc, alerts, drain, env, hist>>

\* `_read_cmds()`
ReadCmds ==
    /\ pc = "read"
    /\ pending' = ReadCmdsResult
    /\ hist' = [hist EXCEPT !.read = {f.id : f \in mailbox}]
    /\ pc' = "apply"
    /\ UNCHANGED <<now, procs, nextPid, idx, running, mailbox, lastCmd,
                   statusFile, readerSaw, wpc, alerts, drain, env>>

\* a command application that begins with the alert check for its target
ApplyCmdWithAlertCheck ==
    /\ pc = "apply"
    /\ pending # <<>>
    /\ LET c == Head(pending)
           p == IF CmdTarget(c) \in Names THEN CmdTarget(c) ELSE "web"
           a == MaybeAlert(procs[p], now)
       IN  \E out \in StopOutcomes :
             LET r == ApplyCmdResult([procs EXCEPT ![p] = a.s], now, c, nextPid,
                                     SpawnRc(p), out, env.fault)
             IN  /\ procs' = r.procs
                 /\ now' = r.now
                 /\ nextPid' = IF r.spawned THEN nextPid + 1 ELSE nextPid
                 /\ lastCmd' = LastCmdAfter(lastCmd, c, r.trail)
                 /\ drain' = (drain \/ r.marker)
                 /\ mailbox' = Unlink(mailbox, c)
                 /\ alerts' = IF a.sent THEN [alerts EXCEPT ![p] = Append(@, now)]
                              ELSE alerts
                 /\ hist' = [hist EXCEPT !.applied = Append(@, c.id), !.trail = r.trail,
                                          !.last = c]
                 /\ IF r.raised
                    THEN pc' = "crashed" /\ pending' = pending
                    ELSE pc' = "apply" /\ pending' = Tail(pending)
    /\ UNCHANGED <<idx, running, statusFile, readerSaw, wpc, env>>

\* one round of `for fp, obj in _read_cmds(): try: _apply_cmd(...) finally: fp.unlink()`
ApplyCmd ==
    /\ pc = "apply"
    /\ pending # <<>>
    /\ LET c == Head(pending)
           p == IF CmdTarget(c) \in Names THEN CmdTarget(c) ELSE "web"
       IN  \E out \in StopOutcomes :
             LET r == ApplyCmdResult(procs, now, c, nextPid, SpawnRc(p), out, env.fault)
             IN  /\ procs' = r.procs
                 /\ now' = r.now
                 /\ nextPid' = IF r.spawned THEN nextPid + 1 ELSE nextPid
                 /\ lastCmd' = LastCmdAfter(lastCmd, c, r.trail)
                 /\ drain' = (drain \/ r.marker)
                 /\ mailbox' = Unlink(mailbox, c)
                 /\ hist' = [hist EXCEPT !.applied = Append(@, c.id), !.trail = r.trail,
                                          !.last = c]
                 /\ IF r.raised
                    THEN pc' = "crashed" /\ pending' = pending
                    ELSE pc' = "apply" /\ pending' = Tail(pending)
    /\ UNCHANGED <<idx, running, statusFile, readerSaw, wpc, alerts, env>>

\* a snapshot taken before the commands of the tick are all applied
SnapshotOpenBeforeCommands ==
    /\ pc = "apply"
    /\ \E hs \in ProbeVectors :
         statusFile' = [st |-> "trunc", doc |-> StatusDoc(hs)]
    /\ pc' = "snapw"
    /\ UNCHANGED <<now, procs, nextPid, idx, running, mailbox, pending, lastCmd,
                   readerSaw, wpc, alerts, drain, env, hist>>

\* `_snapshot_status(specs)` up to the open() inside write_text: the document
\* is built and status.json is truncated
SnapshotOpen ==
    /\ pc = "apply"
    /\ pending = <<>>
    /\ \E hs \in ProbeVectors :
         statusFile' = [st |-> "trunc", doc |-> StatusDoc(hs)]
    /\ pc' = "snapw"
    /\ UNCHANGED <<now, procs, nextPid, idx, running, mailbox, pending, lastCmd,
                   readerSaw, wpc, alerts, drain, env, hist>>

\* the rest of write_text: the document is written and the file closed
SnapshotWrite ==
    /\ pc = "snapw"
    /\ statusFile' = [statusFile EXCEPT !.st = "full"]
    /\ pc' = "health"
    /\ idx' = 1
    /\ UNCHANGED <<now, procs, nextPid, running, mailbox, pending, lastCmd,
                   readerSaw, wpc, alerts, drain, env, hist>>

\* a health step for p that also clears the unhealthy timer of the others
HealthEffectTouchesOthers(p, s, t, h, out, n) ==
    LET r == HealthPass(s, t, h, nextPid, SpawnRc(p), out, env.fault)
    IN  /\ procs' = [q \in Names |->
                        IF q = p THEN r.s
                        ELSE [procs[q] EXCEPT !.unhealthy_since = None]]
        /\ now' = r.now
        /\ nextPid' = IF r.did \in {"restart", "forced"} /\ ~r.raised
                      THEN nextPid + 1 ELSE nextPid
        /\ alerts' = IF r.sent THEN [alerts EXCEPT ![p] = Append(@, t)] ELSE alerts
        /\ hist' = [hist EXCEPT !.forced[p] = IF r.did = "forced" THEN @ + 1 ELSE 0,
                                !.seen = [p |-> p, t |-> t, alive |-> IsRunning(s),
                                          healthy |-> IsRunning(s) /\ h, did |-> r.did,
                                          raised |-> r.raised],
                                !.ticks = @ + n]

\* the health pass for process p, found in state s at time t with probe
\* answer h; n is 1 when the step counts as a tick of SpecAlert
HealthEffect(p, s, t, h, out, n) ==
    LET r == HealthPass(s, t, h, nextPid, SpawnRc(p), out, env.fault)
    IN  /\ procs' = [procs EXCEPT ![p] = r.s]
        /\ now' = r.now
        /\ nextPid' = IF r.did \in {"restart", "forced"} /\ ~r.raised
                      THEN nextPid + 1 ELSE nextPid
        /\ alerts' = IF r.sent THEN [alerts EXCEPT ![p] = Append(@, t)] ELSE alerts
        /\ hist' = [hist EXCEPT !.forced[p] = IF r.did = "forced" THEN @ + 1 ELSE 0,
                                !.seen = [p |-> p, t |-> t, alive |-> IsRunning(s),
                                          healthy |-> IsRunning(s) /\ h, did |-> r.did,
                                          raised |-> r.raised],
                                !.ticks = @ + n]

\* the health pass, one process per step
Health ==
    /\ pc = "health"
    /\ LET p == Procs[idx]
       IN  \E h \in ProbeResults(p), out \in StopOutcomes :
             HealthEffect(p, procs[p], now, h, out, 0)
    /\ IF hist'.seen.raised
       THEN idx' = idx /\ pc' = "crashed"
       ELSE IF idx < Len(Procs)
       THEN idx' = idx + 1 /\ pc' = "health"
       ELSE idx' = 1 /\ pc' = "loop"
    /\ UNCHANGED <<running, mailbox, pending, lastCmd, statusFile, readerSaw,
                   wpc, drain, env>>

\* `while running` found false
BeginShutdown ==
    /\ pc = "loop"
    /\ ~running
    /\ pc' = "stopping"
    /\ idx' = 1
    /\ UNCHANGED <<now, procs, nextPid, running, mailbox, pending, lastCmd,
                   statusFile, readerSaw, wpc, alerts, drain, env, hist>>

\* `for s in specs: _stop(s)`, one process per step
StopAll ==
    /\ pc = "stopping"
    /\ LET p == Procs[idx]
       IN  \E out \in StopOutcomes :
             LET sp == Stop(procs[p], now, out)
             IN  /\ procs' = [procs EXCEPT ![p] = sp.s]
                 /\ now' = sp.now
    /\ IF idx < Len(Procs)
       THEN idx' = idx + 1 /\ pc' = "stopping"
       ELSE idx' = 1 /\ pc' = "done"
    /\ UNCHANGED <<nextPid, running, mailbox, pending, lastCmd, statusFile,
                   readerSaw, wpc, alerts, drain, env, hist>>

\* ------------------------------------------------- the world around main()
Live == pc \notin {"done", "crashed"}

\* A signal arrives while main() is about to test `running`, sleeps, or
\* applies commands: one that arrives during the boot, the snapshot or the
\* health pass is found by the same test of `running`.
SignalTime == pc \in {"loop", "read", "apply"}

\* The operator's files are written while main() sleeps (before it reads
\* the mailbox) or while it applies commands: a file written at another
\* moment reaches main() no differently from one written in the next sleep.
OperatorTime == pc \in {"read", "apply"}

\* From now on open() of a log file, or Popen, raises (the logs directory
\* is gone or not writable, the interpreter cannot be executed).  It sets in
\* once the watchdog is up, during a sleep.
Fault ==
    /\ pc = "loop"
    /\ env.faulty # "none"
    /\ env.fault = "none"
    /\ env' = [env EXCEPT !.fault = env.faulty]
    /\ UNCHANGED <<now, procs, nextPid, pc, idx, running, mailbox, pending,
                   lastCmd, statusFile, readerSaw, wpc, alerts, drain, hist>>

\* handle_signal
Signal ==
    /\ SignalTime
    /\ env.sig
    /\ running
    /\ running' = FALSE
    /\ hist' = [hist EXCEPT !.sig = [applied |-> Len(hist.applied),
                                     spawned |-> nextPid - 1]]
    /\ UNCHANGED <<now, procs, nextPid, pc, idx, mailbox, pending, lastCmd,
                   statusFile, readerSaw, wpc, alerts, drain, env>>

\* a child exits on its own
Crash ==
    /\ Live
    /\ env.crashes < MaxCrashes
    /\ \E p \in Names :
         /\ env.mode[p] = "flaky"
         /\ IsRunning(procs[p])
         /\ procs' = [procs EXCEPT ![p].rc = CRASH_RC]
    /\ env' = [env EXCEPT !.crashes = @ + 1]
    /\ UNCHANGED <<now, nextPid, pc, idx, running, mailbox, pending, lastCmd,
                   statusFile, readerSaw, wpc, alerts, drain, hist>>

\* _enqueue_control up to the write of the command file
EnqueueFile ==
    /\ OperatorTime
    /\ env.ops
    /\ wpc.at = "idle"
    /\ env.sent < env.cmds
    /\ \E action \in Actions :
         LET f == [ts |-> now, target |-> env.focus, action |-> action,
                   kind |-> "obj", id |-> env.sent + 1]
         IN  /\ mailbox' = WriteFile(mailbox, f)
             /\ wpc' = [at |-> "record", c |-> f]
    /\ env' = [env EXCEPT !.sent = @ + 1]
    /\ UNCHANGED <<now, procs, nextPid, pc, idx, running, pending, lastCmd,
                   statusFile, readerSaw, alerts, drain, hist>>

\* _enqueue_control, the write of the `queued` record to last_cmd.json
EnqueueRecord ==
    /\ OperatorTime
    /\ wpc.at = "record"
    /\ lastCmd' = [id |-> wpc.c.id, target |-> wpc.c.target,
                   action |-> wpc.c.action, state |-> "queued"]
    /\ wpc' = [at |-> "idle", c |-> NoFile]
    /\ UNCHANGED <<now, procs, nextPid, pc, idx, running, mailbox, pending,
                   statusFile, readerSaw, alerts, drain, env, hist>>

\* another writer drops a file into runtime/cmd: an unknown action, a body
\* that does not parse, or a JSON value that is no object
ExternalDrop ==
    /\ OperatorTime
    /\ env.ops
    /\ env.focus = "engine"
    /\ env.sent < env.cmds
    /\ \E kind \in {"obj", "garbage", "nonobj"} :
         LET f == [ts |-> now, target |-> "engine",
                   action |-> IF kind = "obj" THEN "bogus" ELSE "restart",
                   kind |-> kind, id |-> env.sent + 1]
         IN  mailbox' = WriteFile(mailbox, f)
    /\ env' = [env EXCEPT !.sent = @ + 1]
    /\ UNCHANGED <<now, procs, nextPid, pc, idx, running, pending, lastCmd,
                   statusFile, readerSaw, wpc, alerts, drain, hist>>

\* system_status of app/web.py, its read of status.json
ReadStatus ==
    /\ env.web
    /\ readerSaw' = CASE statusFile.st = "absent" -> "absent"
                      [] statusFile.st = "trunc" -> "malformed"
                      [] statusFile.st = "full" -> "complete"
    /\ readerSaw' # readerSaw
    /\ UNCHANGED <<now, procs, nextPid, pc, idx, running, mailbox, pending,
                   lastCmd, statusFile, wpc, alerts, drain, env, hist>>

Next ==
    \/ Boot \/ Sleep \/ ReadCmds \/ ApplyCmd \/ SnapshotOpen \/ SnapshotWrite
    \/ Health \/ BeginShutdown \/ StopAll
    \/ Signal \/ Crash \/ EnqueueFile \/ EnqueueRecord \/ ExternalDrop
    \/ ReadStatus \/ Fault

Spec == Init /\ [][Next]_vars

\* ------------------------------------------------ one process, many ticks
\* The health pass of one process (engine) at the ticks of a long run.  The
\* time from one tick to the next is the sleep plus whatever the rest of
\* the tick took (the other processes' backoff waits and stops); a quiet
\* period is a run of ticks that all find the child alive and healthy,
\* whose effect is that of the last of them.
AlertEnv == Env([p \in Names |-> "stable"], FALSE, FALSE, 0, "(none)", FALSE)

InitAlert == InitWith("alert") /\ env = AlertEnv

Others == <<pc, idx, running, mailbox, pending, lastCmd, statusFile, readerSaw,
            wpc, drain, env>>

NoDelay == [delay |-> 0, rc |-> SIGTERM_RC]

\* main(), the initial _start of the process
AlertBoot ==
    /\ pc = "alert"
    /\ procs["engine"].restart_times = <<>>
    /\ LET st == Start(procs["engine"], now, nextPid, None)
       IN  procs' = [procs EXCEPT !["engine"] = st.s] /\ now' = st.now
    /\ nextPid' = nextPid + 1
    /\ UNCHANGED <<Others, alerts, hist>>

AlertTickOk(gap) ==
    /\ pc = "alert"
    /\ procs["engine"].restart_times # <<>>
    /\ hist.ticks < MaxAlertTicks
    /\ now + gap <= Epoch + AlertTime

\* a tick that finds the child exited
AlertDead ==
    /\ \E gap \in AlertGaps :
         /\ AlertTickOk(gap)
         /\ HealthEffect("engine", [procs["engine"] EXCEPT !.rc = CRASH_RC],
                          now + gap, TRUE, NoDelay, 1)
    /\ UNCHANGED Others

\* a tick that finds the child alive and its probe failing
AlertBad ==
    /\ AlertTickOk(CHECK_INTERVAL)
    /\ IsRunning(procs["engine"])
    /\ HealthEffect("engine", procs["engine"], now + CHECK_INTERVAL, FALSE, NoDelay, 1)
    /\ UNCHANGED Others

\* a quiet period: ticks that find the child alive and healthy
AlertQuiet ==
    /\ AlertTickOk(QuietGap)
    /\ IsRunning(procs["engine"])
    /\ HealthEffect("engine", procs["engine"], now + QuietGap, TRUE, NoDelay, 0)
    /\ UNCHANGED Others

NextAlert == AlertBoot \/ AlertDead \/ AlertBad \/ AlertQuiet

SpecAlert == InitAlert /\ [][NextAlert]_vars


\* ================================================================== claims
\* the step is the health pass of process p
HealthStep(p) == hist'.seen # hist.seen /\ hist'.seen.p = p

\* the step is `_apply_cmd` (and the unlink) of the first pending command
ApplyStep == pc = "apply" /\ pending # <<>> /\ hist'.applied # hist.applied

\* how many times _apply_cmd was called with the file of this id
TimesApplied(id) == Cardinality({i \in DOMAIN hist.applied : hist.applied[i] = id})

\* C1: while a child stays alive with its probe failing, the health pass
\* forces one stop+start for the episode and not one at every following
\* tick: a process force-restarted by one health pass is not force-restarted
\* by the next one when the restarted child has run for less than the grace
\* period.
CE_C1_OneForcedRestartPerEpisode ==
    [][\A p \in Names :
         (HealthStep(p) /\ hist'.seen.did = "forced" /\ hist.forced[p] >= 1)
         => hist'.seen.t - procs[p].last_start >= 15]_vars

\* C2: applying a `stop` whose target is web leaves the command in state
\* error and every field of web's runtime state as it was.
T_C2_StopWebRefused ==
    [][(/\ ApplyStep
        /\ Head(pending).kind = "obj"
        /\ Head(pending).target = "web"
        /\ Head(pending).action = "stop")
       => (/\ lastCmd'.id = Head(pending).id
           /\ lastCmd'.state = "error"
           /\ procs'["web"] = procs["web"])]_vars

W_C2_StopWebRefused ==
    /\ lastCmd.target = "web" /\ lastCmd.action = "stop" /\ lastCmd.state = "error"
    /\ procs["web"].proc # None /\ procs["web"].rc # None

\* C3: once the command loop of a tick is over, however it ended, every
\* file the tick's _read_cmds() returned has been applied exactly once and
\* is gone from the mailbox.
CE_C3_EachReadCommandAppliedOnce ==
    pc # "apply" =>
        \A id \in hist.read :
            TimesApplied(id) = 1 /\ id \notin {f.id : f \in mailbox}

\* C4: the backoff level of every process is always between 0 and the
\* ceiling of 60.
T_C4_BackoffWithinCeiling ==
    \A p \in Names : procs[p].backoff \in 0..60

W_C4_BackoffWithinCeiling ==
    /\ \E p \in Names : procs[p].backoff = 60
    /\ \E p \in Names : procs[p].backoff = 0 /\ procs[p].restart_times # <<>>

\* C5 as stated: a tick that finds a child alive and healthy at least 30 s
\* after its start (a stable child: its probe has answered true all along)
\* leaves its backoff level at 0.
CE_C5_ResetAtThirtySeconds ==
    [][\A p \in Names :
         (/\ HealthStep(p)
          /\ env.mode[p] = "stable"
          /\ hist'.seen.alive /\ hist'.seen.healthy
          /\ hist'.seen.t - procs[p].last_start >= 30)
         => procs'[p].backoff = 0]_vars

\* C5 as amended: a tick that finds a child alive and healthy more than 30 s
\* after its start leaves its backoff level at 0, and a level that is not 0
\* becomes 0 only in such a tick: never when the child is found not alive
\* or its probe failing, and by nothing but the health pass.
T_C5_ResetAfterThirtySeconds ==
    [][\A p \in Names :
         /\ (/\ HealthStep(p)
             /\ hist'.seen.alive /\ hist'.seen.healthy
             /\ hist'.seen.t - procs[p].last_start > 30)
            => procs'[p].backoff = 0
         /\ (procs[p].backoff # 0 /\ procs'[p].backoff = 0)
            => (/\ HealthStep(p)
                /\ hist'.seen.alive /\ hist'.seen.healthy
                /\ hist'.seen.t - procs[p].last_start > 30)]_vars

W_C5_ResetAfterThirtySeconds ==
    \E p \in Names :
        /\ hist.seen.p = p /\ hist.seen.did = "ok"
        /\ procs[p].backoff = 0
        /\ hist.seen.t - procs[p].last_start > 30

\* the levels 1,3,7,15,31,60,60,... by their position
Level(k) == IF k = 0 THEN 0 ELSE IF k >= 6 THEN 60 ELSE 2 ^ k - 1

\* C6: every start replaces the level L by min(2*L+1, 60), and a child that
\* exits at every start, whose level is therefore never reset, is at the
\* k-th level of 1,3,7,15,31,60,60,... after its k-th start.
T_C6_BackoffSequence ==
    /\ [][\A p \in Names :
            procs'[p].restart_times # procs[p].restart_times
            => procs'[p].backoff = Min(2 * procs[p].backoff + 1, 60)]_vars
    /\ [](\A p \in Names :
            env.mode[p] = "crashy"
            => procs[p].backoff = Level(Len(procs[p].restart_times)))

W_C6_BackoffSequence ==
    \E p \in Names :
        /\ env.mode[p] = "crashy"
        /\ Len(procs[p].restart_times) >= 7
        /\ procs[p].backoff = 60

\* C7: when the process has been restarted at t = 0, 10, 20 and 40, one
\* alert for it has been sent, at t = 40, and any further alert comes more
\* than 300 s after that one.
CE_C7_AlertAtFourthRestart ==
    LET rt == procs["engine"].restart_times
        al == alerts["engine"]
    IN  (/\ Len(rt) >= 4
         /\ rt[1] = Epoch /\ rt[2] = Epoch + 10
         /\ rt[3] = Epoch + 20 /\ rt[4] = Epoch + 40)
        => (/\ al # <<>>
            /\ al[1] = Epoch + 40
            /\ \A k \in 2..Len(al) : al[k] - al[1] > 300)

\* C8: the alert check, made at time t of a health pass that restarts the
\* process, sends an alert and sets last_alert to t exactly when more than
\* 3 of the recorded restart times lie within the 120 s before t and more
\* than 300 s have passed since last_alert; otherwise it sends nothing and
\* last_alert stays.
T_C8_AlertCondition ==
    [][\A p \in Names :
         (HealthStep(p) /\ hist'.seen.did \in {"restart", "forced"})
         => LET t == hist'.seen.t
                rt == procs[p].restart_times
                n == Cardinality({i \in DOMAIN rt : t - rt[i] <= 120})
            IN  IF n > 3 /\ t - procs[p].last_alert > 300
                THEN /\ alerts'[p] = Append(alerts[p], t)
                     /\ procs'[p].last_alert = t
                ELSE /\ alerts'[p] = alerts[p]
                     /\ procs'[p].last_alert = procs[p].last_alert]_vars

W_C8_AlertCondition ==
    /\ alerts["engine"] # <<>>
    /\ procs["engine"].last_alert = alerts["engine"][Len(alerts["engine"])]
    /\ hist.seen.did = "forced"

\* C9: two alerts for the same process are always more than 300 s apart.
T_C9_AlertsApartByCooldown ==
    \A p \in Names :
        \A i, j \in DOMAIN alerts[p] :
            i < j => alerts[p][j] - alerts[p][i] > 300

W_C9_AlertsApartByCooldown == Len(alerts["engine"]) >= 2

\* C10: a reader of status.json never finds an empty or partly written
\* document.
CE_C10_ReaderSeesCompleteSnapshot == readerSaw # "malformed"

\* the command _apply_cmd is called with in an ApplyStep
Cmd == Head(pending)

T_C12_StartOnRunningIsNoOp ==
    [][(/\ ApplyStep
        /\ Cmd.kind = "obj"
        /\ Cmd.action = "start"
        /\ Cmd.target \in Names
        /\ IsRunning(procs[Cmd.target]))
       => (/\ lastCmd'.id = Cmd.id
           /\ lastCmd'.state = "done"
           /\ procs' = procs
           /\ nextPid' = nextPid
           /\ now' = now)]_vars

W_C12_StartOnRunningIsNoOp ==
    \E p \in Names :
        /\ lastCmd.target = p /\ lastCmd.action = "start" /\ lastCmd.state = "done"
        /\ IsRunning(procs[p])
        /\ Len(procs[p].restart_times) = 1

T_C14_DrainIsNoLifecycleTransition ==
    [][(/\ ApplyStep
        /\ Cmd.kind = "obj"
        /\ Cmd.action = "drain")
       => (/\ procs' = procs
           /\ nextPid' = nextPid
           /\ now' = now
           /\ lastCmd'.id = Cmd.id
           /\ (Cmd.target = "engine" => drain' /\ lastCmd'.state = "done")
           /\ (Cmd.target # "engine" => drain' = drain /\ lastCmd'.state = "error"))]_vars

W_C14_DrainIsNoLifecycleTransition ==
    /\ drain
    /\ lastCmd.target = "engine" /\ lastCmd.action = "drain" /\ lastCmd.state = "done"
    /\ IsRunning(procs["engine"])
    /\ Len(procs["engine"].restart_times) = 1

\* C15: main() is over only after a signal has cleared `running`, and when
\* it is over the handle of every process has been cleared by the final
\* stop pass.  (The claim also says that main() is over some time after the
\* signal; the states below are those in which it is over.)
CE_C15_ExitsOnlyOnSignalAllStopped ==
    pc \in {"done", "crashed"}
    => (/\ ~running
        /\ \A p \in Names : procs[p].proc = None)

\* C16: whatever a command file holds (an unknown target, an unknown action,
\* a refused stop, a body that does not parse, a JSON value that is no
\* object), applying it records state error for that command and main()
\* goes on with the rest of the tick: the remaining commands, then the
\* snapshot and the health pass.
CE_C16_NoCommandContentEndsTheLoop ==
    [][(/\ ApplyStep
        /\ \/ Cmd.kind \in {"nonobj", "garbage"}
           \/ CmdTarget(Cmd) \notin Names
           \/ CmdAction(Cmd) \notin Actions
           \/ Refused(CmdTarget(Cmd), CmdAction(Cmd)))
       => (/\ lastCmd'.id = Cmd.id
           /\ lastCmd'.state = "error"
           /\ pc' = "apply"
           /\ pending' = Tail(pending))]_vars

\* C17: a health pass that restarts a process while the log file cannot be
\* opened, or while the spawn fails, does not end main(); and when only the
\* log file cannot be opened the child is started all the same.
CE_C17_StartFailureNotFatal ==
    [][\A p \in Names :
         (/\ HealthStep(p)
          /\ hist'.seen.did \in {"restart", "forced"}
          /\ env.fault # "none")
         => (/\ pc' # "crashed"
             /\ (env.fault = "nolog"
                 => (/\ procs'[p].proc = nextPid
                     /\ procs'[p].last_start = now')))]_vars

\* position of a recorded state in the order applied -> executing -> done|error
StateRank(st) ==
    CASE st = "applied" -> 1 [] st = "executing" -> 2 [] st \in {"done", "error"} -> 3

\* C18: the states one _apply_cmd records for its command are in the order
\* applied -> executing -> done|error, none repeated, and end with the one
\* terminal state that is recorded.
CE_C18_TrailEndsInOneTerminalState ==
    [][ApplyStep
       => LET tr == hist'.trail
          IN  /\ tr # <<>>
              /\ tr[Len(tr)] \in {"done", "error"}
              /\ \A i, j \in DOMAIN tr : i < j => StateRank(tr[i]) < StateRank(tr[j])
              /\ lastCmd'.id = Cmd.id
              /\ lastCmd'.state = tr[Len(tr)]]_vars

\* C19: when main() has applied the command enqueued last and is running,
\* last_cmd.json shows that command in a terminal state.
CE_C19_LastCmdShowsTerminalState ==
    (/\ pc # "crashed"
     /\ env.sent >= 1
     /\ \E i \in DOMAIN hist.applied : hist.applied[i] = env.sent)
    => (/\ lastCmd.id = env.sent
        /\ lastCmd.state \in {"done", "error"})

\* C20: the health pass stops and starts a live process only when the probe
\* of that very child has failed at every tick for at least the grace
\* period: the failing span it measures began no earlier than the child's
\* start and is at least 15 s long.
CE_C20_ForcedRestartOnlyAfterGraceOfThisChild ==
    [][\A p \in Names :
         (HealthStep(p) /\ hist'.seen.did = "forced")
         => (/\ procs[p].unhealthy_since # None
             /\ procs[p].unhealthy_since >= procs[p].last_start
             /\ hist'.seen.t - procs[p].unhealthy_since >= UNHEALTHY_GRACE)]_vars

\* C21 as stated: a process found exited by the health pass at time t is
\* restarted at once, whatever its backoff level: when the start succeeds
\* the new child is spawned at t.
CE_C21_DeadRestartedAtOnce ==
    [][\A p \in Names :
         (HealthStep(p) /\ ~hist'.seen.alive /\ ~hist'.seen.raised)
         => (/\ hist'.seen.did = "restart"
             /\ procs'[p].proc = nextPid
             /\ procs'[p].last_start = hist'.seen.t)]_vars

\* C21 as amended: a process found exited by the health pass at time t is
\* started again by that same health pass, whatever its backoff level and
\* restart history, after the alert check; _start first sleeps what is left
\* of the backoff delay since the previous start, so the child is spawned at
\* the later of t and last_start + min(backoff, 60).
T_C21_DeadRestartedInSamePass ==
    [][\A p \in Names :
         (HealthStep(p) /\ ~hist'.seen.alive)
         => LET t == hist'.seen.t
                due == procs[p].last_start + Min(procs[p].backoff, 60)
                recent == {i \in DOMAIN procs[p].restart_times :
                              t - procs[p].restart_times[i] <= 120}
                alert == Cardinality(recent) > 3 /\ t - procs[p].last_alert > 300
            IN  /\ hist'.seen.did = "restart"
                /\ procs'[p].last_alert = IF alert THEN t ELSE procs[p].last_alert
                /\ alerts'[p] = IF alert THEN Append(alerts[p], t) ELSE alerts[p]
                /\ now' = IF due > t THEN due ELSE t
                /\ \/ hist'.seen.raised
                   \/ /\ procs'[p].proc = nextPid
                      /\ procs'[p].last_start = now'
                      /\ procs'[p].restart_times
                            = DequeAppend(procs[p].restart_times, now')]_vars

W_C21_DeadRestartedInSamePass ==
    \E p \in Names :
        /\ hist.seen.p = p /\ hist.seen.did = "restart" /\ ~hist.seen.raised
        /\ procs[p].last_start > hist.seen.t
        /\ procs[p].backoff = 60

\* the command being applied repeats the one applied just before it in the
\* same tick: same module, same action
Twice ==
    /\ ApplyStep
    /\ Cmd.kind = "obj" /\ hist.last.kind = "obj"
    /\ hist.last.id \in hist.read
    /\ Cmd.target \in Names
    /\ Cmd.target = hist.last.target /\ Cmd.action = hist.last.action

\* C22 as stated: applying the same start, stop or restart command a second
\* time in succession leaves the process's handle liveness, backoff level
\* and restart timestamps as the first application left them (the child has
\* not exited by itself in between).
CE_C22_SecondApplicationChangesNothing ==
    [][(/\ Twice
        /\ Cmd.action \in {"start", "stop", "restart"}
        /\ (IsRunning(procs[Cmd.target]) \/ procs[Cmd.target].proc = None))
       => LET p == Cmd.target
          IN  /\ IsRunning(procs'[p]) = IsRunning(procs[p])
              /\ procs'[p].backoff = procs[p].backoff
              /\ procs'[p].restart_times = procs[p].restart_times]_vars

\* C22 as amended: a second stop in succession changes nothing, and neither
\* does a second start while the child started by the first is running; a
\* second restart stops and starts the process once more: the handle is
\* again a live child, but there is one more restart timestamp and the
\* backoff level has moved one step further.
T_C22_StartStopIdempotentRestartNot ==
    [][Twice
       => LET p == Cmd.target
              b == procs[p].backoff
          IN  /\ Cmd.action = "stop" => procs'[p] = procs[p]
              /\ (Cmd.action = "start" /\ IsRunning(procs[p]))
                    => procs'[p] = procs[p]
              /\ (Cmd.action = "restart" /\ hist'.trail[Len(hist'.trail)] = "done")
                    => /\ procs'[p].proc = nextPid
                       /\ procs'[p].proc # procs[p].proc
                       /\ procs'[p].restart_times
                             = DequeAppend(procs[p].restart_times, now')
                       /\ procs'[p].backoff
                             = IF b = 0 THEN 1
                               ELSE IF 2 * b + 1 > 60 THEN 60 ELSE 2 * b + 1]_vars

W_C22_StartStopIdempotentRestartNot ==
    /\ Len(hist.applied) = 2 /\ Cardinality(hist.read) = 2
    /\ hist.last.action = "restart" /\ hist.last.target = "engine"
    /\ hist.trail = <<"applied", "executing", "done">>
    /\ pending = <<>> /\ pc = "apply"
    /\ Len(procs["engine"].restart_times) = 3
    /\ IsRunning(procs["engine"])

\* C23: when the health pass finds a process not alive and restarts it, the
\* unhealthy timer of that process is cleared: right after that restart
\* unhealthy_since is None.
CE_C23_CrashRestartClearsUnhealthyTimer ==
    [][\A p \in Names :
         (/\ HealthStep(p)
          /\ ~hist'.seen.alive
          /\ hist'.seen.did = "restart"
          /\ ~hist'.seen.raised)
         => procs'[p].unhealthy_since = None]_vars

\* C24: in every reachable state unhealthy_since is set only while the
\* process has a handle, and it is None right after any start of the
\* process, by the health pass or by a command.
CE_C24_UnhealthyTimerOnlyWhileHandleAndFailing ==
    /\ [](\A p \in Names : procs[p].unhealthy_since # None => procs[p].proc # None)
    /\ [][\A p \in Names :
            procs'[p].restart_times # procs[p].restart_times
            => procs'[p].unhealthy_since = None]_vars

\* C25: in every tick the commands read are all applied before the snapshot
\* is built, the snapshot is built from the table as the commands left it,
\* and the health pass runs only after the snapshot is written and leaves
\* the published snapshot alone: what it starts or stops is not in the
\* snapshot of its tick.
T_C25_CommandsThenSnapshotThenHealth ==
    [][/\ (pc' = "snapw" /\ pc # "snapw")
          => /\ pc = "apply" /\ pending = <<>>
             /\ \A id \in hist.read : TimesApplied(id) >= 1
             /\ statusFile'.doc.meta.ts = now
             /\ statusFile'.doc.meta.last_cmd = lastCmd
             /\ \A p \in Names :
                  LET e == statusFile'.doc.entries[p]
                  IN  /\ e.running = IsRunning(procs[p])
                      /\ e.backoff = procs[p].backoff
                      /\ e.last_start = procs[p].last_start
                      /\ e.last_exit_code = procs[p].last_exit_code
                      /\ e.last_exit_ts = procs[p].last_exit_ts
       /\ (pc' = "health" /\ pc # "health")
          => /\ pc = "snapw"
             /\ statusFile'.st = "full"
             /\ statusFile'.doc = statusFile.doc
             /\ procs' = procs
       /\ (\E p \in Names : HealthStep(p))
          => pc = "health" /\ statusFile' = statusFile /\ statusFile.st = "full"
       /\ ApplyStep => pc' # "health"]_vars

W_C25_CommandsThenSnapshotThenHealth ==
    /\ pc = "loop" /\ statusFile.st = "full"
    /\ hist.last.id \in hist.read
    /\ hist.last.action = "restart" /\ hist.last.target = "engine"
    /\ hist.seen.t = statusFile.doc.meta.ts
    /\ statusFile.doc.meta.last_cmd.id = hist.last.id
    /\ LET s == procs["engine"]
           n == Len(s.restart_times)
       IN  /\ n >= 3
           /\ statusFile.doc.entries["engine"].last_start = s.restart_times[n - 1]
           /\ s.last_start > s.restart_times[n - 1]

\* C26: every published snapshot has one entry per managed process beside
\* _meta, and in each entry healthy implies running, pid is set exactly when
\* running, and the reason is "ok" exactly when running and healthy.
T_C26_SnapshotEntriesConsistent ==
    statusFile.st = "full"
    => /\ DOMAIN statusFile.doc = {"entries", "meta"}
       /\ DOMAIN statusFile.doc.entries = Names
       /\ \A p \in Names :
            LET e == statusFile.doc.entries[p]
            IN  /\ e.healthy => e.running
                /\ (e.pid # None) <=> e.running
                /\ (e.reason.kind = "ok") <=> (e.running /\ e.healthy)

W_C26_SnapshotEntriesConsistent ==
    /\ statusFile.st = "full"
    /\ \E p, q, r \in Names :
         /\ ~statusFile.doc.entries[p].running
         /\ statusFile.doc.entries[p].reason.kind = "not running"
         /\ statusFile.doc.entries[q].running /\ ~statusFile.doc.entries[q].healthy
         /\ statusFile.doc.entries[r].reason.kind = "ok"

\* C27: when a child has exited by itself, the snapshot of the next tick
\* shows it not running with its exit code and exit time collected.
CE_C27_CrashExitRecordedInSnapshot ==
    [][\A p \in Names :
         (/\ pc = "apply" /\ pc' = "snapw"
          /\ procs[p].proc # None /\ procs[p].rc # None)
         => LET e == statusFile'.doc.entries[p]
            IN  /\ ~e.running
                /\ e.last_exit_code = procs[p].rc
                /\ e.last_exit_ts # None]_vars

\* C28: the commands read in a tick are all the files of the mailbox, in
\* ascending order of file name, and they are applied in that order; for
\* names <timestamp>_<module>_<action>.json that is nondecreasing order of
\* the enqueue timestamp.
T_C28_AppliedInFilenameOrder ==
    /\ [](\A i, j \in DOMAIN pending :
             i < j => /\ NameLess(pending[i], pending[j])
                      /\ pending[i].ts <= pending[j].ts)
    /\ [][(pc = "read" /\ pc' = "apply")
          => /\ {pending'[i] : i \in DOMAIN pending'} = mailbox
             /\ Len(pending') = Cardinality(mailbox)]_vars
    /\ [][ApplyStep
          => /\ hist'.last = Head(pending)
             /\ pending' \in {pending, Tail(pending)}]_vars

W_C28_AppliedInFilenameOrder ==
    /\ pc = "apply"
    /\ Len(pending) = 1
    /\ Len(hist.applied) = 1
    /\ hist.last.id \in hist.read
    /\ hist.last.ts < pending[1].ts

\* ------------------------------------------------------------- the probes
\* what GET /health can give: no answer (the connection fails or times out)
\* or a response with one of these status codes
Statuses == {200, 204, 299, 300, 404, 500, 503}

Answers == {None} \cup Statuses

\* the heartbeat file: missing, or its age in seconds
HeartbeatAges == {0, UNHEALTHY_GRACE - 1, UNHEALTHY_GRACE, UNHEALTHY_GRACE + 1}

Heartbeats == {None} \cup HeartbeatAges

\* the heartbeat test shared by web_healthy and engine_healthy
HeartbeatFresh(hb) == hb # None /\ hb < UNHEALTHY_GRACE

\* web_healthy: True on a 2xx response; after any other response, and after
\* an exception, the heartbeat decides
web_healthy(answer, hb) ==
    IF answer # None /\ 200 <= answer /\ answer < 300
    THEN TRUE
    ELSE HeartbeatFresh(hb)

engine_healthy(hb) == HeartbeatFresh(hb)

telegram_healthy == TRUE

\* spec.health_check() of process p
health_check(p, answer, hb) ==
    CASE p = "web" -> web_healthy(answer, hb)
      [] p = "engine" -> engine_healthy(hb)
      [] p = "telegram" -> telegram_healthy

\* the world a probe looks at: the web endpoint's answer and the age of the
\* heartbeat file of the probed process
ProbeEnv(answer, hb) ==
    [http |-> answer, hb |-> hb]
        @@ Env([p \in Names |-> "stable"], FALSE, FALSE, 0, "(none)", FALSE)

InitProbe ==
    /\ InitWith("probe")
    /\ env \in {ProbeEnv(a, hb) : a \in Answers, hb \in Heartbeats}

\* one call of health_check, its answer kept in hist.seen
ProbeCall ==
    /\ pc = "probe"
    /\ \E p \in Names :
         hist' = [hist EXCEPT !.seen = [p |-> p, t |-> now, alive |-> TRUE,
                                        healthy |-> health_check(p, env.http, env.hb),
                                        did |-> "probe", raised |-> FALSE]]
    /\ UNCHANGED <<now, procs, nextPid, pc, idx, running, mailbox, pending,
                   lastCmd, statusFile, readerSaw, wpc, alerts, drain, env>>

\* the web endpoint starts to answer otherwise
EndpointChanges ==
    /\ pc = "probe"
    /\ \E a \in Answers \ {env.http} : env' = [env EXCEPT !.http = a]
    /\ UNCHANGED <<now, procs, nextPid, pc, idx, running, mailbox, pending,
                   lastCmd, statusFile, readerSaw, wpc, alerts, drain, hist>>

\* the heartbeat file is touched, ages or is removed
HeartbeatChanges ==
    /\ pc = "probe"
    /\ \E hb \in Heartbeats \ {env.hb} : env' = [env EXCEPT !.hb = hb]
    /\ UNCHANGED <<now, procs, nextPid, pc, idx, running, mailbox, pending,
                   lastCmd, statusFile, readerSaw, wpc, alerts, drain, hist>>

NextProbe == ProbeCall \/ EndpointChanges \/ HeartbeatChanges

SpecProbe == InitProbe /\ [][NextProbe]_vars

ProbeStep(p) == pc = "probe" /\ hist'.seen # hist.seen /\ hist'.seen.p = p

\* C29: the HTTP probe says healthy exactly when the endpoint answers with a
\* status from 200 to 299; the heartbeat file (fresh when it exists and is
\* younger than the grace threshold) decides only when there is no answer,
\* so a response outside 200..299 gives unhealthy whatever the heartbeat.
CE_C29_HeartbeatOnlyOnConnectionFailure ==
    [][ProbeStep("web")
       => hist'.seen.healthy
             = IF env.http = None
               THEN (env.hb # None /\ env.hb < 15)
               ELSE (200 <= env.http /\ env.http <= 299)]_vars

\* C30: for two consecutive starts of a process at t1 < t2, with L the
\* backoff level just before the second, t2 - t1 >= min(L, 60): no child is
\* spawned earlier than the backoff delay after the previous start.
T_C30_StartsApartByBackoff ==
    [][\A p \in Names :
         (/\ procs'[p].restart_times # procs[p].restart_times
          /\ procs[p].restart_times # <<>>)
         => LET old == procs[p].restart_times
                new == procs'[p].restart_times
                t1 == old[Len(old)]
                t2 == new[Len(new)]
                L == procs[p].backoff
            IN  /\ t1 = procs[p].last_start
                /\ t2 = procs'[p].last_start
                /\ t2 - t1 >= (IF L < 60 THEN L ELSE 60)]_vars

W_C30_StartsApartByBackoff ==
    \E p \in Names :
        LET rt == procs[p].restart_times
            n == Len(rt)
        IN  /\ n >= 6
            /\ procs[p].backoff = 60
            /\ rt[n] - rt[n - 1] = 31
            /\ rt[n - 1] - rt[n - 2] = 15

\* C31: the restart-timestamp buffer of every process holds at most 50
\* entries in nondecreasing order, and they are its most recent starts:
\* every start pushes its time at the end, and the oldest entry is dropped
\* when the buffer is full.
T_C31_RestartBufferLastFifty ==
    /\ [](\A p \in Names :
            LET rt == procs[p].restart_times
            IN  /\ Len(rt) <= 50
                /\ \A i, j \in DOMAIN rt : i <= j => rt[i] <= rt[j]
                /\ rt # <<>> => rt[Len(rt)] = procs[p].last_start)
    /\ [][\A p \in Names :
            LET old == procs[p].restart_times
                new == procs'[p].restart_times
                t == procs'[p].last_start
            IN  (new # old \/ procs'[p].last_start # procs[p].last_start)
                => new = IF Len(old) < 50
                         THEN Append(old, t)
                         ELSE Append(SubSeq(old, 2, 50), t)]_vars

W_C31_RestartBufferLastFifty ==
    \E p \in Names :
        LET rt == procs[p].restart_times
        IN  /\ Len(rt) = 50
            /\ rt[1] > Epoch + 3
            /\ nextPid >= 55

\* C32: applying a command with target X, and the health-pass step for
\* process X (a crash restart and a forced stop and start included), leave
\* the runtime state of every other managed process as it was.
T_C32_OtherProcessesUntouched ==
    [][/\ ApplyStep
          => \A q \in Names : q # CmdTarget(Cmd) => procs'[q] = procs[q]
       /\ \A p \in Names :
            HealthStep(p) => \A q \in Names \ {p} : procs'[q] = procs[q]]_vars

W_C32_OtherProcessesUntouched ==
    /\ hist.seen.did = "forced"
    /\ hist.seen.p = "web"
    /\ procs["web"].proc # None
    /\ Len(procs["web"].restart_times) = 2
    /\ procs["engine"].unhealthy_since # None
    /\ Len(procs["engine"].restart_times) = 1

\* C33: a stop or start is over, backoff wait and termination wait
\* included, before anything else is decided: at every moment the
\* supervisor applies a command, builds a snapshot or takes a health
\* decision, every start and stop made so far was completed at or before
\* that moment, and each lifecycle operation begins no earlier than the
\* previous one ended.
T_C33_LifecycleOperationsDoNotOverlap ==
    /\ [](\A p \in Names :
            /\ procs[p].last_start <= now
            /\ procs[p].last_exit_ts # None => procs[p].last_exit_ts <= now)
    /\ [](statusFile.st # "absent"
            => \A p \in Names :
                 LET e == statusFile.doc.entries[p]
                 IN  /\ e.last_start <= statusFile.doc.meta.ts
                     /\ e.last_exit_ts # None => e.last_exit_ts <= statusFile.doc.meta.ts)
    /\ [][\A p \in Names :
            HealthStep(p)
            => /\ hist'.seen.t = now
               /\ \A q \in Names : procs[q].last_start <= hist'.seen.t
               /\ now' >= now]_vars
    /\ [][now' >= now]_vars

W_C33_LifecycleOperationsDoNotOverlap ==
    /\ pc = "read"
    /\ hist.seen.p = "telegram" /\ hist.seen.did = "restart"
    /\ procs["telegram"].last_start > hist.seen.t
    /\ now = procs["telegram"].last_start + 3

\* C34: when a health pass is over every managed process has a handle: a
\* process stopped by a stop command is found not alive and started again
\* by the health pass of the same tick, so none stays stopped into the next
\* tick.
T_C34_NoProcessStaysStopped ==
    /\ [](pc \in {"loop", "read"} => \A p \in Names : procs[p].proc # None)
    /\ [][\A p \in Names :
            (HealthStep(p) /\ procs[p].proc = None)
            => /\ hist'.seen.did = "restart"
               /\ (hist'.seen.raised \/ procs'[p].proc # None)]_vars

W_C34_NoProcessStaysStopped ==
    /\ pc = "loop"
    /\ hist.last.action = "stop" /\ hist.last.target = "engine"
    /\ hist.last.id \in hist.read
    /\ hist.trail = <<"applied", "executing", "done">>
    /\ Len(hist.applied) = 1
    /\ procs["engine"].proc # None
    /\ IsRunning(procs["engine"])
    /\ Len(procs["engine"].restart_times) = 2
    /\ statusFile.st = "full" /\ ~statusFile.doc.entries["engine"].running

\* C35: every command accepted by the enqueue operation is applied by the
\* supervisor, once: the file of a command written by _enqueue_control
\* leaves the mailbox only when that command has been applied, whatever the
\* interleaving of enqueues and ticks (files written by anyone else are
\* left out: the mailbox holds only commands of _enqueue_control).
CE_C35_AcceptedCommandAppliedOnce ==
    [][\A f \in mailbox :
         (/\ f \notin mailbox'
          /\ \A g \in mailbox \cup mailbox' : g.kind = "obj" /\ g.action \in Actions)
         => Cardinality({i \in DOMAIN hist'.applied : hist'.applied[i] = f.id}) = 1]_vars

\* C36: once the shutdown signal has been received the supervisor applies
\* no further command and starts no child: after the signal the only
\* lifecycle operations are the stops of the final stop pass.
CE_C36_NothingButStopsAfterSignal ==
    [][~running
       => /\ hist'.applied = hist.applied
          /\ \A p \in Names :
               procs'[p].restart_times = procs[p].restart_times]_vars

\* C36 as amended: the signal only sets the flag, which the loop reads at
\* the top of an iteration.  The iteration in which the signal arrives is
\* finished (its commands are applied, its health pass may start
\* children), no further iteration begins, and once the final stop pass
\* has begun no command is applied and no child is started: handles only
\* go to None.
T_C36_IterationFinishedThenStopPass ==
    /\ [][~running => ~(pc = "loop" /\ pc' = "read")]_vars
    /\ [](pc \in {"stopping", "done"} => ~running)
    /\ [][(pc = "stopping" \/ pc = "done")
          => /\ hist'.applied = hist.applied
             /\ nextPid' = nextPid
             /\ pc' \in {"stopping", "done"}
             /\ \A p \in Names :
                  /\ procs'[p].restart_times = procs[p].restart_times
                  /\ procs'[p].proc \in {procs[p].proc, None}]_vars
    /\ [](pc = "done" => \A p \in Names : procs[p].proc = None)

W_C36_IterationFinishedThenStopPass ==
    /\ pc = "done"
    /\ Len(hist.applied) > hist.sig.applied
    /\ nextPid - 1 > hist.sig.spawned + 1
    /\ hist.sig.applied >= 0
    /\ \A p \in Names : procs[p].proc = None

\* C37: a process whose last_exit_code or last_exit_ts is set has no
\* handle: the exit fields are set only by _stop and cleared by every
\* start, so a snapshot entry with running = true has both of them null.
T_C37_ExitFieldsOnlyWithoutHandle ==
    /\ [](\A p \in Names :
            (procs[p].last_exit_code # None \/ procs[p].last_exit_ts # None)
            => procs[p].proc = None)
    /\ [](statusFile.st # "absent"
            => \A p \in Names :
                 LET e == statusFile.doc.entries[p]
                 IN  e.running => (e.last_exit_code = None /\ e.last_exit_ts = None))
    /\ [][\A p \in Names :
            (procs'[p].last_exit_ts # procs[p].last_exit_ts
               /\ procs'[p].last_exit_ts # None)
            => (procs[p].proc # None /\ procs'[p].proc = None)]_vars

W_C37_ExitFieldsOnlyWithoutHandle ==
    /\ statusFile.st = "full"
    /\ hist.last.action = "stop" /\ hist.last.target = "engine"
    /\ hist.trail = <<"applied", "executing", "done">>
    /\ Len(hist.applied) = 1
    /\ statusFile.doc.meta.ts > hist.last.ts
    /\ statusFile.doc.meta.last_cmd.state = "done"
    /\ statusFile.doc.entries["engine"].running
    /\ statusFile.doc.entries["engine"].last_exit_code = None
    /\ statusFile.doc.entries["engine"].last_exit_ts = None
    /\ Len(procs["engine"].restart_times) = 2

\* C38: every spawn (the initial start, a start or restart command, a
\* restart by the health pass) appends one restart timestamp and advances
\* the backoff level, and nothing else changes the restart timestamps; the
\* initial start and operator-requested starts are thus among the
\* timestamps the flap alert counts.
T_C38_EverySpawnCounted ==
    [][\A p \in Names :
         LET old == procs[p].restart_times
             new == procs'[p].restart_times
             b == procs[p].backoff
             spawn == procs'[p].proc # None /\ procs'[p].proc # procs[p].proc
         IN  /\ spawn
                => /\ new = IF Len(old) < 50
                            THEN Append(old, procs'[p].last_start)
                            ELSE Append(SubSeq(old, 2, 50), procs'[p].last_start)
                   /\ procs'[p].backoff
                         = IF b = 0 THEN 1
                           ELSE IF 2 * b + 1 > 60 THEN 60 ELSE 2 * b + 1
             /\ ~spawn => new = old]_vars

W_C38_EverySpawnCounted ==
    \E p \in Names :
        /\ Len(alerts[p]) = 1
        /\ Len(procs[p].restart_times) = 5
        /\ procs[p].restart_times[1] = Epoch
        /\ alerts[p][1] - procs[p].restart_times[1] <= 120
        /\ alerts[p][1] > procs[p].restart_times[4]
        /\ alerts[p][1] <= procs[p].restart_times[5]

\* C39: applying a command sends no alert and changes no last_alert; an
\* alert is sent only by a health pass step that restarts the process
\* (found exited, or unhealthy beyond the grace), and the check is made on
\* the restart timestamps as they were before that restart.
T_C39_AlertOnlyInHealthPass ==
    [][/\ ApplyStep
          => /\ alerts' = alerts
             /\ \A p \in Names : procs'[p].last_alert = procs[p].last_alert
       /\ \A p \in Names :
            (alerts'[p] # alerts[p] \/ procs'[p].last_alert # procs[p].last_alert)
            => LET t == hist'.seen.t
                   old == procs[p].restart_times
               IN  /\ HealthStep(p)
                   /\ hist'.seen.did \in {"restart", "forced"}
                   /\ Cardinality({i \in DOMAIN old : t - old[i] <= 120}) > 3
                   /\ t - procs[p].last_alert > 300
                   /\ procs'[p].last_alert = t
                   /\ alerts'[p] = Append(alerts[p], t)]_vars

W_C39_AlertOnlyInHealthPass ==
    /\ pc = "apply"
    /\ hist.last.action = "restart" /\ hist.last.target = "engine"
    /\ hist.last.id \in hist.read
    /\ hist.trail = <<"applied", "executing", "done">>
    /\ Len(procs["engine"].restart_times) = 5
    /\ now - procs["engine"].restart_times[1] <= 120
    /\ alerts["engine"] = <<>>
    /\ procs["engine"].last_alert = 0

====
